---- MODULE Spec2Model ----
(***************************************************************************)
(* Model of simple-http-server's request handler (src/src/main.rs):        *)
(* MainHandler::handle, save_files, list_directory and send_file, over an  *)
(* explicit file system.  One action handles one request from start to     *)
(* finish, as one iron worker does; the last part of the module takes      *)
(* send_file apart into its file-system calls, next to a second worker.    *)
(*                                                                         *)
(* Conventions: Option<T> is a sequence, <<>> for None and <<v>> for       *)
(* Some(v).  A path is a sequence of file names from the file-system root; *)
(* a URL segment is a sequence of units, a unit being a file name, a       *)
(* literal character or one percent-encoded byte.                          *)
(***************************************************************************)
EXTENDS Integers, Sequences, FiniteSets, TLC

VARIABLES cfg,      \* the MainHandler struct: root is Root, plus the flags
          fs,       \* the file system: path -> [kind, len, mtime, ver]
          req,      \* the request handled last
          resp,     \* the response to it
          touched,  \* the paths whose metadata or content that request read or wrote
          stream    \* send_file taken step by step: where it stands, the
                    \* metadata it read, the body that went out

vars == <<cfg, fs, req, resp, touched, stream>>

None == <<>>
Some(v) == <<v>>
IsSome(o) == o # <<>>
Unwrap(o) == o[1]

-----------------------------------------------------------------------------
(* Bounds of the model *)

MaxSegLen == 3      \* units per URL segment
MaxPos == 3         \* largest byte position in a Range header
MaxDate == 2        \* largest date (seconds) in If-Range / If-Modified-Since
MaxEntries == 3     \* entries in the listed directory
MaxEncodings == 2   \* items in an Accept-Encoding header

-----------------------------------------------------------------------------
(* Paths *)

Root == <<"srv">>                 \* MainHandler.root, the directory /srv

IsPrefix(p, q) == Len(p) <= Len(q) /\ SubSeq(q, 1, Len(p)) = p

\* the path is the root itself or lies beneath it
UnderRoot(p) == IsPrefix(Root, p)

Parent(p) == IF p = <<>> THEN <<>> ELSE SubSeq(p, 1, Len(p) - 1)

InvalidByte == "\\xFF"

\* url::percent_encoding::percent_decode, one unit at a time: %2E is '.',
\* %2F is '/', %FF is a byte that is not UTF-8; any other unit is literal
DecodeUnit(u) ==
    CASE u = "%2E" -> "."
      [] u = "%2F" -> "/"
      [] u = "%FF" -> InvalidByte
      [] OTHER -> u

percent_decode(seg) == [i \in 1..Len(seg) |-> DecodeUnit(seg[i])]

\* Cow<str> from decode_utf8(): Err when a decoded byte is not UTF-8
decode_utf8_ok(bytes) == \A i \in 1..Len(bytes) : bytes[i] # InvalidByte

\* the components of a path string: split at '/', empty components dropped
RECURSIVE Components(_, _)
Components(s, cur) ==
    IF s = <<>> THEN (IF cur = <<>> THEN <<>> ELSE <<cur>>)
    ELSE IF Head(s) = "/"
         THEN (IF cur = <<>> THEN <<>> ELSE <<cur>>) \o Components(Tail(s), <<>>)
         ELSE Components(Tail(s), Append(cur, Head(s)))

\* PathBuf::push: an absolute part replaces the path, a relative one is appended
Push(path, part) ==
    IF part # <<>> /\ Head(part) = "/"
    THEN Components(part, <<>>)
    ELSE path \o Components(part, <<>>)

RECURSIVE PushAll(_, _)
PushAll(path, parts) ==
    IF parts = <<>> THEN path ELSE PushAll(Push(path, Head(parts)), Tail(parts))

\* Root as a PathBuf: a sequence of components, each a sequence of units
RootBuf == [i \in 1..Len(Root) |-> <<Root[i]>>]

-----------------------------------------------------------------------------
(* The file system *)

Node(kind, len, sec, nsec, ver) ==
    [kind |-> kind, len |-> len, mtime |-> <<sec, nsec>>, ver |-> ver]

IsDir(f, p) == p \in DOMAIN f /\ f[p].kind = "dir"

\* path resolution as the kernel does it: "." stays, ".." goes to the parent
\* (the parent of / is /), a name enters the child; every step needs a directory
RECURSIVE Walk(_, _, _)
Walk(f, cur, comps) ==
    IF comps = <<>> THEN (IF cur \in DOMAIN f THEN Some(cur) ELSE None)
    ELSE IF ~IsDir(f, cur) THEN None
    ELSE LET c == Head(comps) IN
         IF c = <<".">> THEN Walk(f, cur, Tail(comps))
         ELSE IF c = <<".", ".">> THEN Walk(f, Parent(cur), Tail(comps))
         ELSE IF Len(c) = 1 THEN Walk(f, Append(cur, c[1]), Tail(comps))
         ELSE None       \* a name of several units: no such file in the model

Resolve(f, buf) == Walk(f, <<>>, buf)

Children(f, p) == {q \in DOMAIN f : Len(q) = Len(p) + 1 /\ IsPrefix(p, q)}

-----------------------------------------------------------------------------
(* File names: suffix, MIME type, byte order *)

\* the text from the last '.' of a name on, "" when there is none
Suffix(name) ==
    CASE name \in {"a.js", "big.js"} -> ".js"
      [] name \in {"e.txt", "nil.txt", "one.txt", "up.txt"} -> ".txt"
      [] name = "index.html" -> ".html"
      [] name = "index.htm" -> ".htm"
      [] OTHER -> ""

\* path_str.ends_with(ext), path_str being the PathBuf as text
EndsWith(buf, ext) ==
    /\ buf # <<>>
    /\ Len(buf[Len(buf)]) = 1
    /\ Suffix(buf[Len(buf)][1]) = ext

\* MIME_TYPES.mime_for_path: by extension, text/plain when unknown
mime_for_path(buf) ==
    IF EndsWith(buf, ".js") THEN "application/javascript"
    ELSE IF EndsWith(buf, ".html") \/ EndsWith(buf, ".htm") THEN "text/html"
    ELSE "text/plain"

-----------------------------------------------------------------------------
(* Responses *)

NoBody == [kind |-> "none", path |-> <<>>, ver |-> 0, offset |-> 0, bytes |-> 0,
           rows |-> <<>>]

\* the first `take` bytes (all of them when take is None) of the file from `offset`
FileBody(p, node, offset, take) ==
    LET rest == IF offset >= node.len THEN 0 ELSE node.len - offset IN
    [kind |-> "file", path |-> p, ver |-> node.ver, offset |-> offset,
     bytes |-> IF IsSome(take) /\ Unwrap(take) < rest THEN Unwrap(take) ELSE rest,
     rows |-> <<>>]

HtmlBody(rows) == [NoBody EXCEPT !.kind = "html", !.rows = rows]

\* Response::with(status)
ResponseWith(status) ==
    [status |-> status, content_type |-> None, content_length |-> None,
     content_range |-> None, content_encoding |-> None, accept_ranges |-> FALSE,
     cache_control |-> None, last_modified |-> None, etag |-> None,
     location |-> None, body |-> NoBody]

\* the worker thread unwinds: no response is written
Panic == ResponseWith("panic")

\* Err(IronError::new(_, status)): iron answers with the bare status
IronError(status) == ResponseWith(status)

\* util::error_resp(status, msg): the status with the message as body
error_resp(status) == [ResponseWith(status) EXCEPT !.body.kind = "text"]

\* util::error_io2iron: a missing path is 404 Not Found
error_io2iron(kind) ==
    IronError(IF kind = "NotFound" THEN "NotFound" ELSE "InternalServerError")

\* u64::MAX.  TLC's integers are 32 bits wide, so the largest of them stands
\* for 2^64 - 1; every length and offset of the model is far below it.
U64_MAX == 2147483647

-----------------------------------------------------------------------------
(* send_file *)

\* EntityTag::weak(format!("{0:x}-{1:x}.{2:x}", len, sec, nsec)): the three
\* numbers determine the tag and the tag determines them
EntityTag(weak, len, sec, nsec) == [weak |-> weak, tag |-> <<len, sec, nsec>>]

\* EntityTag::strong_eq: both strong and the same tag
strong_eq(a, b) == ~a.weak /\ ~b.weak /\ a.tag = b.tag

\* EntityTag::weak_eq: the same tag
weak_eq(a, b) == a.tag = b.tag

\* the If-Match test: a list of entity tags none of which strongly equals etag
if_match_failed(r, etag) ==
    /\ IsSome(r.if_match)
    /\ ~Unwrap(r.if_match).any
    /\ \A i \in 1..Len(Unwrap(r.if_match).items) :
          ~strong_eq(Unwrap(r.if_match).items[i], etag)

\* matched_ifrange with the date test made strict
matched_ifrange_strict(r, etag, modified) ==
    IF r.if_range = None THEN TRUE
    ELSE IF Unwrap(r.if_range).kind = "EntityTag"
         THEN weak_eq(etag, Unwrap(r.if_range).etag)
         ELSE modified < Unwrap(r.if_range).date

\* the If-Range test; modified is the file's modification time in seconds
matched_ifrange(r, etag, modified) ==
    IF r.if_range = None THEN TRUE
    ELSE IF Unwrap(r.if_range).kind = "EntityTag"
         THEN weak_eq(etag, Unwrap(r.if_range).etag)
         ELSE modified <= Unwrap(r.if_range).date

\* byte_range letting a range start at the very end of the file
byte_range_past_end(spec, len) ==
    CASE spec.t = "FromTo" ->
           IF spec.x > len \/ spec.x > spec.y
           THEN [ok |-> FALSE, offset |-> 0, length |-> 0]
           ELSE [ok |-> TRUE, offset |-> spec.x,
                 length |-> (IF spec.y >= len THEN len - 1 ELSE spec.y) - spec.x + 1]
      [] spec.t = "AllFrom" ->
           IF spec.x > len
           THEN [ok |-> FALSE, offset |-> 0, length |-> 0]
           ELSE [ok |-> TRUE, offset |-> spec.x, length |-> len - spec.x]
      [] spec.t = "Last" ->
           LET x == IF spec.x > len THEN len ELSE spec.x IN
           [ok |-> TRUE, offset |-> len - x, length |-> x]

\* the first range spec against the file length: (offset, length) or 416
byte_range(spec, len) ==
    CASE spec.t = "FromTo" ->
           IF spec.x >= len \/ spec.x > spec.y
           THEN [ok |-> FALSE, offset |-> 0, length |-> 0]
           ELSE [ok |-> TRUE, offset |-> spec.x,
                 length |-> (IF spec.y >= len THEN len - 1 ELSE spec.y) - spec.x + 1]
      [] spec.t = "AllFrom" ->
           IF spec.x >= len
           THEN [ok |-> FALSE, offset |-> 0, length |-> 0]
           ELSE [ok |-> TRUE, offset |-> spec.x, length |-> len - spec.x]
      [] spec.t = "Last" ->
           LET x == IF spec.x > len THEN len ELSE spec.x IN
           [ok |-> TRUE, offset |-> len - x, length |-> x]

\* the 206 response; offset + length - 1 is u64 arithmetic, which underflows
\* at 0 - 1: a build with overflow checks panics there, one without wraps
partial_content(base, p, node, offset, length, overflow) ==
    IF offset + length = 0 /\ overflow = "panic" THEN Panic
    ELSE [base EXCEPT
            !.status = "PartialContent",
            !.content_length = Some(length),
            !.content_range =
                Some([first |-> offset,
                      last |-> IF offset + length = 0 THEN U64_MAX
                               ELSE offset + length - 1,
                      total |-> node.len]),
            !.body = FileBody(p, node, offset, Some(length))]

\* the whole file, status 200
full_content(base, p, node) ==
    [base EXCEPT !.content_length = Some(node.len),
                 !.body = FileBody(p, node, 0, None)]

\* the GET arm of send_file: [done |-> an early return, resp |-> the response]
send_file_get(c, r, buf, p, node, etag, modified, overflow) ==
    LET base == [ResponseWith("Ok") EXCEPT
                    !.accept_ranges = c.range,
                    !.content_type = Some(mime_for_path(buf))]
        range == IF matched_ifrange(r, etag, modified) THEN r.range ELSE None
        early(status) == [done |-> TRUE, resp |-> IronError(status)]
    IN
    IF ~c.range THEN [done |-> FALSE, resp |-> full_content(base, p, node)]
    ELSE IF IsSome(r.range) /\ if_match_failed(r, etag)
         THEN early("RangeNotSatisfiable")
    ELSE IF range = None THEN [done |-> FALSE, resp |-> full_content(base, p, node)]
    ELSE IF Unwrap(range).unit # "bytes" THEN early("RangeNotSatisfiable")
    ELSE IF Unwrap(range).specs = <<>> THEN early("RangeNotSatisfiable")
    ELSE LET br == byte_range(Unwrap(range).specs[1], node.len) IN
         IF ~br.ok THEN early("RangeNotSatisfiable")
         ELSE LET pc == partial_content(base, p, node, br.offset, br.length, overflow) IN
              [done |-> pc.status = "panic", resp |-> pc]

\* the HEAD arm: Content-Type from the request's own header, else text/plain
send_file_head(c, r, node) ==
    [ResponseWith("Ok") EXCEPT
        !.accept_ranges = c.range,
        !.content_type = IF IsSome(r.content_type) THEN r.content_type
                         ELSE Some("text/plain"),
        !.content_length = Some(node.len)]

\* compress_eligible without the test for 206
compress_eligible_partial(c, rsp, buf) ==
    /\ IsSome(c.compress)
    /\ \E ext \in Unwrap(c.compress) : EndsWith(buf, ext)

\* is the response to be compressed: compression configured, not a 206, and
\* the path ends with a configured suffix
compress_eligible(c, rsp, buf) ==
    /\ IsSome(c.compress)
    /\ rsp.status # "PartialContent"
    /\ \E ext \in Unwrap(c.compress) : EndsWith(buf, ext)

\* the first item of Accept-Encoding that is deflate or gzip
RECURSIVE first_encoding(_)
first_encoding(encodings) ==
    IF encodings = <<>> THEN None
    ELSE IF Head(encodings) \in {"deflate", "gzip"} THEN Some(Head(encodings))
    ELSE first_encoding(Tail(encodings))

with_encoding(c, r, rsp, buf) ==
    IF compress_eligible(c, rsp, buf) /\ IsSome(r.accept_encoding)
       /\ IsSome(first_encoding(Unwrap(r.accept_encoding)))
    THEN [rsp EXCEPT !.content_encoding = first_encoding(Unwrap(r.accept_encoding))]
    ELSE rsp

\* the cache block: 304 when If-Modified-Since is not before the modification
\* time, else Cache-Control (max-age 5 * 60), Last-Modified and ETag
with_cache(c, r, rsp, etag, modified) ==
    IF ~c.cache THEN rsp
    ELSE IF IsSome(r.if_modified_since) /\ modified <= Unwrap(r.if_modified_since)
         THEN ResponseWith("NotModified")
    ELSE [rsp EXCEPT !.cache_control = Some("public, max-age=300"),
                     !.last_modified = Some(modified),
                     !.etag = Some(etag)]

\* MainHandler::send_file
send_file(c, f, r, buf, overflow) ==
    LET target == Resolve(f, buf) IN
    IF target = None
    THEN [resp |-> error_io2iron("NotFound"), touched |-> {}]
    ELSE LET p == Unwrap(target)
             node == f[p]
             modified == node.mtime[1]     \* Timespec::new(seconds, 0)
             etag == EntityTag(TRUE, node.len, modified, 0)
             arm == CASE r.method = "Head" ->
                           [done |-> FALSE, resp |-> send_file_head(c, r, node)]
                      [] r.method = "Get" ->
                           send_file_get(c, r, buf, p, node, etag, modified, overflow)
                      [] OTHER ->
                           [done |-> FALSE,
                            resp |-> [ResponseWith("Ok") EXCEPT !.accept_ranges = c.range]]
         IN [resp |-> IF arm.done THEN arm.resp
                      ELSE with_cache(c, r, with_encoding(c, r, arm.resp, buf),
                                      etag, modified),
             touched |-> {p}]

-----------------------------------------------------------------------------
(* list_directory *)

ORDER_ASC == "asc"
ORDER_DESC == "desc"
DEFAULT_ORDER == ORDER_DESC
SORT_FIELDS == <<"name", "modified", "size">>

\* the file names of the model in byte order, as String::cmp orders them
NameOrder == <<"a.js", "big.js", "d", "e.txt", "index.htm", "index.html", "lnk",
               "nil.txt", "one.txt", "secret", "srv", "sub", "sub2", "up.txt">>

NameRank(name) == CHOOSE i \in 1..Len(NameOrder) : NameOrder[i] = name

\* Ord::cmp on integers
IntCmp(a, b) == IF a < b THEN "Less" ELSE IF a > b THEN "Greater" ELSE "Equal"

\* Ordering::reverse
Reverse(o) == IF o = "Less" THEN "Greater" ELSE IF o = "Greater" THEN "Less" ELSE o

\* SystemTime::cmp: seconds, then nanoseconds
TimeCmp(a, b) == IF a[1] # b[1] THEN IntCmp(a[1], b[1]) ELSE IntCmp(a[2], b[2])

\* Metadata::is_dir / is_file of a directory entry (the entry's own metadata:
\* neither holds for a symlink or a special file)
is_dir(e) == e.metadata.kind = "dir"
is_file(e) == e.metadata.kind = "file"

\* the sort_by closure before the reversal
FieldCmp(field, a, b) ==
    CASE field = "name" -> IntCmp(NameRank(a.filename), NameRank(b.filename))
      [] field = "modified" -> TimeCmp(a.metadata.mtime, b.metadata.mtime)
      [] field = "size" ->
           IF is_dir(a) = is_dir(b) \/ is_file(a) = is_file(b)
           THEN IntCmp(a.metadata.len, b.metadata.len)
           ELSE IF is_dir(a) THEN "Less" ELSE "Greater"

\* the sort_by closure
Compare(field, reverse, a, b) ==
    IF reverse THEN Reverse(FieldCmp(field, a, b)) ELSE FieldCmp(field, a, b)

\* how many leading elements of v are less than tmp
RECURSIVE LessRun(_, _, _, _)
LessRun(field, reverse, v, tmp) ==
    IF v = <<>> \/ Compare(field, reverse, Head(v), tmp) # "Less" THEN 0
    ELSE 1 + LessRun(field, reverse, Tail(v), tmp)

\* slice::sort_by on a short slice is an insertion sort: each element, from
\* the back, is inserted into the sorted tail behind the elements less than it
RECURSIVE SortBy(_, _, _)
SortBy(field, reverse, v) ==
    IF Len(v) <= 1 THEN v
    ELSE LET tail == SortBy(field, reverse, Tail(v))
             k == LessRun(field, reverse, tail, Head(v))
         IN SubSeq(tail, 1, k) \o <<Head(v)>> \o SubSeq(tail, k + 1, Len(tail))

\* the value of the last query pair with this key, None without one
RECURSIVE QueryGet(_, _)
QueryGet(query, key) ==
    IF query = <<>> THEN None
    ELSE IF query[Len(query)][1] = key THEN Some(query[Len(query)][2])
    ELSE QueryGet(SubSeq(query, 1, Len(query) - 1), key)

InSeq(x, s) == \E i \in 1..Len(s) : s[i] = x

\* the name of the first entry, in listing order, that is an index page
RECURSIVE IndexEntry(_)
IndexEntry(entries) ==
    IF entries = <<>> THEN None
    ELSE IF Head(entries).filename \in {"index.html", "index.htm"}
         THEN Some(Head(entries).filename)
         ELSE IndexEntry(Tail(entries))

\* one table row per entry, after the [Up] row (a blank row at the root)
Rows(path_prefix, entries) ==
    <<[name |-> IF path_prefix # <<>> THEN "[Up]" ELSE "&nbsp;", dir |-> FALSE]>>
    \o [i \in 1..Len(entries) |->
          [name |-> entries[i].filename, dir |-> is_dir(entries[i])]]

\* the listing's Content-Encoding: gzip as soon as one item is deflate or gzip
listing_encoding(c, r) ==
    IF /\ IsSome(c.compress)
       /\ IsSome(r.accept_encoding)
       /\ \E i \in 1..Len(Unwrap(r.accept_encoding)) :
             Unwrap(r.accept_encoding)[i] \in {"deflate", "gzip"}
    THEN Some("gzip") ELSE None

\* MainHandler::list_directory; read_order is the order read_dir yields the names in
list_directory(c, f, r, buf, path_prefix, read_order, overflow) ==
    LET dir == Unwrap(Resolve(f, buf))
        read == [i \in 1..Len(read_order) |->
                   [filename |-> read_order[i],
                    metadata |-> f[Append(dir, read_order[i])]]]
        sort_field == QueryGet(r.query, "sort")
        order == IF IsSome(QueryGet(r.query, "order"))
                 THEN Unwrap(QueryGet(r.query, "order")) ELSE DEFAULT_ORDER
        sorting == c.sort /\ IsSome(sort_field)
        entries == IF sorting
                   THEN SortBy(Unwrap(sort_field), order = ORDER_DESC, read)
                   ELSE read
        seen == {dir} \cup Children(f, dir)
    IN
    IF sorting /\ ~InSeq(Unwrap(sort_field), SORT_FIELDS)
    THEN [resp |-> IronError("BadRequest"), touched |-> seen]
    ELSE IF sorting /\ order \notin {ORDER_ASC, ORDER_DESC}
    THEN [resp |-> IronError("BadRequest"), touched |-> seen]
    ELSE IF c.index /\ IsSome(IndexEntry(entries))
    THEN LET sent == send_file(c, f, r, Append(buf, <<Unwrap(IndexEntry(entries))>>),
                               overflow)
         IN [resp |-> sent.resp, touched |-> seen \cup sent.touched]
    ELSE [resp |-> [ResponseWith("Ok") EXCEPT
                      !.body = HtmlBody(Rows(path_prefix, entries)),
                      !.content_type = Some("text/html"),
                      !.content_encoding = listing_encoding(c, r)],
          touched |-> seen]

-----------------------------------------------------------------------------
(* save_files and handle *)

\* the file system with a regular file written at path p
WithFile(f, p, file) ==
    [q \in DOMAIN f \cup {p} |->
        IF q = p THEN Node("file", file.len, file.time, 0, file.ver) ELSE f[q]]

\* the copy loop of save_files: fs::copy into path joined with the
\* client-supplied file name, stopping at the first failure
RECURSIVE copy_files(_, _, _, _)
copy_files(f, buf, files, written) ==
    IF files = <<>> THEN [status |-> "Ok", fs |-> f, touched |-> written]
    ELSE IF Head(files).filename = None           \* filename.unwrap()
    THEN [status |-> "panic", fs |-> f, touched |-> written]
    ELSE LET target_path == Push(buf, Unwrap(Head(files).filename))
             name == target_path[Len(target_path)]
             parent == Resolve(f, SubSeq(target_path, 1, Len(target_path) - 1))
             dest == Append(Unwrap(parent), name[1])
         IN IF \/ target_path = <<>>
               \/ Len(name) # 1 \/ name[1] = "."
               \/ parent = None
               \/ ~IsDir(f, Unwrap(parent))
               \/ IsDir(f, dest)
            THEN [status |-> "InternalServerError", fs |-> f, touched |-> written]
            ELSE copy_files(WithFile(f, dest, Head(files)), buf, Tail(files),
                            written \cup {dest})

\* MainHandler::save_files followed by the response handle() builds from it
save_files(f, r, buf) ==
    IF r.body.form # "multipart"
    THEN [resp |-> error_resp("BadRequest"), touched |-> {}, fs |-> f]
    ELSE IF r.body.save # "Full"
    THEN [resp |-> error_resp("InternalServerError"), touched |-> {}, fs |-> f]
    ELSE LET copied == copy_files(f, buf, r.body.files, {}) IN
         [resp |-> CASE copied.status = "Ok" ->
                          [ResponseWith("Found") EXCEPT
                             !.location = Some(<<r.path, r.query>>)]
                     [] copied.status = "panic" -> Panic
                     [] OTHER -> error_resp(copied.status),
          touched |-> copied.touched,
          fs |-> copied.fs]

NonEmpty(seg) == seg # <<>>

\* MainHandler::handle
handle(c, f, r, read_order, overflow) ==
    LET segments == SelectSeq(r.path, NonEmpty)
        bytes == [i \in 1..Len(segments) |-> percent_decode(segments[i])]
        path_prefix == bytes
        fs_path == PushAll(RootBuf, path_prefix)
        path_metadata == Resolve(f, fs_path)
    IN
    IF \E i \in 1..Len(bytes) : ~decode_utf8_ok(bytes[i])      \* .unwrap()
    THEN [resp |-> Panic, touched |-> {}, fs |-> f]
    ELSE IF c.upload /\ r.method = "Post" THEN save_files(f, r, fs_path)
    ELSE IF path_metadata = None
    THEN [resp |-> error_io2iron("NotFound"), touched |-> {}, fs |-> f]
    ELSE IF IsDir(f, Unwrap(path_metadata))
    THEN LET listed == list_directory(c, f, r, fs_path, path_prefix, read_order,
                                      overflow)
         IN [resp |-> listed.resp,
             touched |-> {Unwrap(path_metadata)} \cup listed.touched, fs |-> f]
    ELSE LET sent == send_file(c, f, r, fs_path, overflow)
         IN [resp |-> sent.resp,
             touched |-> {Unwrap(path_metadata)} \cup sent.touched, fs |-> f]

\* the directory handle() would list for this request, None when it lists none
ListedDir(c, f, r) ==
    LET segments == SelectSeq(r.path, NonEmpty)
        bytes == [i \in 1..Len(segments) |-> percent_decode(segments[i])]
        target == Resolve(f, PushAll(RootBuf, bytes))
    IN IF (\E i \in 1..Len(bytes) : ~decode_utf8_ok(bytes[i]))
          \/ (c.upload /\ r.method = "Post")
          \/ target = None
       THEN None
       ELSE IF IsDir(f, Unwrap(target)) THEN target ELSE None

\* the orders in which read_dir may yield the names of a set of entries
Orders(S) ==
    {s \in [1..Cardinality(S) -> S] :
        \A i, j \in 1..Cardinality(S) : i # j => s[i] # s[j]}

ReadOrders(c, f, r) ==
    IF ListedDir(c, f, r) = None THEN {<<>>}
    ELSE Orders({q[Len(q)] : q \in Children(f, Unwrap(ListedDir(c, f, r)))})

-----------------------------------------------------------------------------
(* The file system the server starts on *)

\* the entries /srv/d may hold: two directories, a symlink (neither directory
\* nor regular file), regular files and the two index pages
PoolNames == {"sub", "sub2", "lnk", "one.txt", "big.js", "index.html", "index.htm"}

PoolNode(name) ==
    CASE name = "sub" -> Node("dir", 4, 2, 0, 0)
      [] name = "sub2" -> Node("dir", 3, 0, 0, 0)
      [] name = "lnk" -> Node("other", 2, 1, 7, 0)
      [] name = "one.txt" -> Node("file", 1, 1, 3, 1)
      [] name = "big.js" -> Node("file", 3, 0, 5, 1)
      [] name = "index.html" -> Node("file", 1, 1, 0, 1)
      [] name = "index.htm" -> Node("file", 2, 2, 4, 1)

\* / holds the file d and the served directory srv; srv holds a.js (2 bytes),
\* the empty e.txt and the directory d, which holds the given entries
FsWith(entries) ==
    [p \in {<<>>, <<"d">>, <<"srv">>, <<"srv", "a.js">>, <<"srv", "e.txt">>,
            <<"srv", "d">>} \cup {<<"srv", "d", n>> : n \in entries} |->
        CASE p \in {<<>>, <<"srv">>, <<"srv", "d">>} -> Node("dir", 4, 1, 0, 0)
          [] p = <<"d">> -> Node("file", 1, 0, 0, 1)
          [] p = <<"srv", "a.js">> -> Node("file", 2, 1, 5, 1)
          [] p = <<"srv", "e.txt">> -> Node("file", 0, 1, 0, 1)
          [] OTHER -> PoolNode(p[3])]

-----------------------------------------------------------------------------
(* Configurations and requests *)

Config(index, upload, cache, range, sort, compress) ==
    [index |-> index, upload |-> upload, cache |-> cache, range |-> range,
     sort |-> sort, compress |-> compress]

\* --compress js: the suffixes, each with its leading dot
Compressions == {None, Some({".js"})}

NoUpload == [form |-> "none", save |-> "Full", files |-> <<>>]

\* a GET of the path with no query and no headers
Get(path) ==
    [method |-> "Get", path |-> path, query |-> <<>>, range |-> None,
     if_range |-> None, if_match |-> None, if_modified_since |-> None,
     accept_encoding |-> None, content_type |-> None, body |-> NoUpload]

\* sequences over S of length at most n
RECURSIVE SeqsUpTo(_, _)
SeqsUpTo(S, n) ==
    IF n = 0 THEN {<<>>}
    ELSE SeqsUpTo(S, n - 1) \cup
         {Append(s, x) : s \in {t \in SeqsUpTo(S, n - 1) : Len(t) = n - 1}, x \in S}

\* URL segments: the units a client can send, percent-encoded or not.  The URL
\* parser has already dropped the segments "." and ".." in either spelling.
SegUnits == {"d", "%2E", "%2F", "%FF"}

Segments ==
    {s \in SeqsUpTo(SegUnits, MaxSegLen) :
        percent_decode(s) \notin {<<".">>, <<".", ".">>}}

\* URL paths of no, one or two segments; the second is empty (a doubled or
\* trailing slash) or the name d
UrlPaths ==
    {<<>>} \cup {<<s>> : s \in Segments}
    \cup {<<s, t>> : s \in Segments, t \in {<<>>, <<"d">>}}

\* what a multipart body can hold
UploadFile(filename, len, ver) ==
    [filename |-> filename, len |-> len, time |-> MaxDate, ver |-> ver]

Uploads ==
    {[form |-> "other", save |-> "Full", files |-> <<>>],
     [form |-> "multipart", save |-> "Error", files |-> <<>>],
     [form |-> "multipart", save |-> "Full",
      files |-> <<UploadFile(Some(<<"up.txt">>), 1, 2)>>],
     \* a file name that is an absolute path
     [form |-> "multipart", save |-> "Full",
      files |-> <<UploadFile(Some(<<"/", "up.txt">>), 1, 2)>>],
     \* a file part whose Content-Disposition has no filename
     [form |-> "multipart", save |-> "Full",
      files |-> <<UploadFile(None, 1, 2)>>]}

PathRequests ==
    {Get(p) : p \in UrlPaths}
    \cup {[Get(p) EXCEPT !.method = "Post", !.body = b] : p \in UrlPaths, b \in Uploads}

-----------------------------------------------------------------------------
(* The state machine: a request arrives, the handler answers it, the         *)
(* response is sent and the worker is free again                             *)

\* a request, one of the set R, arrives at a free worker
Receive(R) ==
    /\ req = None
    /\ \E r \in R : req' = Some(r)
    /\ UNCHANGED <<cfg, fs, resp, touched, stream>>

\* no send_file is under way step by step
Idle == [pc |-> "idle", metadata |-> None, sent |-> NoBody]

\* the worker runs handle() on it
Handle ==
    /\ IsSome(req) /\ resp = None /\ stream = Idle
    /\ \E read_order \in ReadOrders(cfg, fs, Unwrap(req)),
          overflow \in {"panic", "wrap"} :
          LET out == handle(cfg, fs, Unwrap(req), read_order, overflow) IN
          /\ resp' = Some(out.resp)
          /\ touched' = out.touched
          /\ fs' = out.fs
    /\ UNCHANGED <<cfg, req, stream>>

\* the response is written out; request and response are dropped
Send ==
    /\ IsSome(resp) /\ stream = Idle
    /\ req' = None /\ resp' = None /\ touched' = {}
    /\ UNCHANGED <<cfg, fs, stream>>

\* path resolution and upload: every URL path, GET and POST
InitPath ==
    /\ cfg \in {Config(FALSE, u, TRUE, TRUE, TRUE, None) : u \in BOOLEAN}
    /\ fs = FsWith({"one.txt"})
    /\ req = None /\ resp = None /\ touched = {} /\ stream = Idle

ReceivePath == Receive(PathRequests)

NextPath == ReceivePath \/ Handle \/ Send

SpecPath == InitPath /\ [][NextPath]_vars

-----------------------------------------------------------------------------
(* Requests for files: every combination of the conditional and range       *)
(* headers, and every Accept-Encoding list against a few ranges              *)

FromTo(x, y) == [t |-> "FromTo", x |-> x, y |-> y]
AllFrom(x) == [t |-> "AllFrom", x |-> x, y |-> 0]
Last(x) == [t |-> "Last", x |-> x, y |-> 0]

Bytes(specs) == Some([unit |-> "bytes", specs |-> specs])

RangeSpecs ==
    {FromTo(x, y) : x \in 0..MaxPos, y \in 0..MaxPos}
    \cup {AllFrom(x) : x \in 0..MaxPos} \cup {Last(x) : x \in 0..MaxPos}

\* no Range, a unit other than bytes, bytes with no spec, with one, with two
Ranges ==
    {None, Some([unit |-> "other", specs |-> <<>>]), Bytes(<<>>)}
    \cup {Bytes(<<s>>) : s \in RangeSpecs}
    \cup {Bytes(<<s, Last(1)>>) : s \in {FromTo(0, 0), AllFrom(MaxPos), Last(1)}}

\* the weak tags send_file gives a.js and e.txt, and the tag of a.js as a
\* strong one
WeakTags == {EntityTag(TRUE, 2, 1, 0), EntityTag(TRUE, 0, 1, 0)}
StrongTag == EntityTag(FALSE, 2, 1, 0)

Dates == 0..MaxDate

IfRanges ==
    {None}
    \cup {Some([kind |-> "EntityTag", etag |-> e, date |-> 0]) : e \in WeakTags}
    \cup {Some([kind |-> "Date", etag |-> EntityTag(TRUE, 0, 0, 0), date |-> d]) :
            d \in Dates}

\* no If-Match, If-Match: *, a strong tag, a weak tag followed by a strong one
IfMatches ==
    {None, Some([any |-> TRUE, items |-> <<>>]),
     Some([any |-> FALSE, items |-> <<StrongTag>>]),
     Some([any |-> FALSE, items |-> <<EntityTag(TRUE, 0, 1, 0), StrongTag>>])}

IfModifiedSinces == {None} \cup {Some(d) : d \in Dates}

AcceptEncodings ==
    {None} \cup {Some(s) : s \in SeqsUpTo({"gzip", "deflate", "identity"}, MaxEncodings)}

FilePaths == {<<<<"a.js">>>>, <<<<"e.txt">>>>}

\* GET with every combination of Range, If-Range, If-Match and
\* If-Modified-Since, gzip accepted
ConditionalRequests ==
    {[Get(p) EXCEPT !.range = rg, !.if_range = ir, !.if_match = im,
                    !.if_modified_since = ims, !.accept_encoding = Some(<<"gzip">>)] :
        p \in FilePaths, rg \in Ranges, ir \in IfRanges, im \in IfMatches,
        ims \in IfModifiedSinces}

\* every method with every Accept-Encoding and If-Modified-Since, against no
\* range, the whole file as a range and a range past the end
EncodingRequests ==
    {[Get(p) EXCEPT !.method = m, !.range = rg, !.accept_encoding = ae,
                    !.if_modified_since = ims, !.content_type = ct] :
        p \in FilePaths, m \in {"Get", "Head", "Put"},
        rg \in {None, Bytes(<<AllFrom(0)>>), Bytes(<<AllFrom(MaxPos)>>)},
        ae \in AcceptEncodings, ims \in IfModifiedSinces,
        ct \in {None, Some("image/png")}}

FileRequests == ConditionalRequests \cup EncodingRequests

\* send_file reads the range, cache and compress settings only
InitFile ==
    /\ cfg \in {Config(FALSE, FALSE, ca, ra, TRUE, co) :
                  ca \in BOOLEAN, ra \in BOOLEAN, co \in Compressions}
    /\ fs = FsWith({"one.txt"})
    /\ req = None /\ resp = None /\ touched = {} /\ stream = Idle

ReceiveFile == Receive(FileRequests)

NextFile == ReceiveFile \/ Handle \/ Send

SpecFile == InitFile /\ [][NextFile]_vars

-----------------------------------------------------------------------------
(* What the claims speak of *)

Answered == IsSome(resp)
TheReq == Unwrap(req)
TheResp == Unwrap(resp)

\* the path the request's URL names, resolved; None when there is no such file
Target == Resolve(fs, PushAll(RootBuf,
              [i \in 1..Len(SelectSeq(TheReq.path, NonEmpty)) |->
                  percent_decode(SelectSeq(TheReq.path, NonEmpty)[i])]))

\* the request is for an existing file (anything but a directory)
FileRequest ==
    /\ Answered
    /\ \A i \in 1..Len(TheReq.path) : decode_utf8_ok(percent_decode(TheReq.path[i]))
    /\ ~(cfg.upload /\ TheReq.method = "Post")
    /\ IsSome(Target)
    /\ ~IsDir(fs, Unwrap(Target))

TheFile == fs[Unwrap(Target)]
FileLen == TheFile.len
FileSec == TheFile.mtime[1]

Min(a, b) == IF a < b THEN a ELSE b

\* the validator the server gives the file: W/"len-sec.0"
FileETag == [weak |-> TRUE, tag |-> <<FileLen, FileSec, 0>>]

\* strong comparison: neither tag is weak and the two are the same
StrongMatch(item) == ~item.weak /\ ~FileETag.weak /\ item.tag = FileETag.tag

\* If-Match is a list of entity tags none of which strongly matches the file's
IfMatchFails ==
    /\ IsSome(TheReq.if_match)
    /\ ~Unwrap(TheReq.if_match).any
    /\ \A i \in 1..Len(Unwrap(TheReq.if_match).items) :
          ~StrongMatch(Unwrap(TheReq.if_match).items[i])

\* If-Range carries the file's tag, or a date not before its modification time
IfRangePasses ==
    /\ IsSome(TheReq.if_range)
    /\ \/ /\ Unwrap(TheReq.if_range).kind = "EntityTag"
          /\ Unwrap(TheReq.if_range).etag.tag = <<FileLen, FileSec, 0>>
       \/ /\ Unwrap(TheReq.if_range).kind = "Date"
          /\ FileSec <= Unwrap(TheReq.if_range).date

\* a GET for a file with range support on and a Range header
RangeRequest ==
    FileRequest /\ cfg.range /\ TheReq.method = "Get" /\ IsSome(TheReq.range)

\* ... whose Range header is to be used
RangeHonored ==
    RangeRequest /\ (TheReq.if_range = None \/ IfRangePasses)

FirstSpec == Unwrap(TheReq.range).specs[1]

HasFirstSpec ==
    Unwrap(TheReq.range).unit = "bytes" /\ Unwrap(TheReq.range).specs # <<>>

\* the first spec cannot be satisfied by a file of FileLen bytes
Unsatisfiable ==
    \/ Unwrap(TheReq.range).unit # "bytes"
    \/ Unwrap(TheReq.range).specs = <<>>
    \/ /\ FirstSpec.t = "FromTo"
       /\ (FirstSpec.x >= FileLen \/ FirstSpec.x > FirstSpec.y)
    \/ /\ FirstSpec.t = "AllFrom"
       /\ FirstSpec.x >= FileLen

\* the (offset, length) the first spec stands for
SpecOffset ==
    IF FirstSpec.t = "Last" THEN FileLen - Min(FirstSpec.x, FileLen) ELSE FirstSpec.x

SpecLength ==
    CASE FirstSpec.t = "FromTo" -> Min(FirstSpec.y, FileLen - 1) - FirstSpec.x + 1
      [] FirstSpec.t = "AllFrom" -> FileLen - FirstSpec.x
      [] FirstSpec.t = "Last" -> Min(FirstSpec.x, FileLen)

\* the response is 200 with the whole file
WholeFile ==
    /\ TheResp.status = "Ok"
    /\ TheResp.content_length = Some(FileLen)
    /\ TheResp.body.kind = "file"
    /\ TheResp.body.offset = 0
    /\ TheResp.body.bytes = FileLen

-----------------------------------------------------------------------------
(* C1 *)

\* a decoded segment of the request holds a path separator (which covers the
\* segments that decode to an absolute path)
LeadsOutside ==
    \E i \in 1..Len(TheReq.path) : InSeq("/", percent_decode(TheReq.path[i]))

\* C1: every path the handler reads metadata from, lists, serves or uploads
\* into is the root or lies beneath it, and a request whose decoded segments
\* hold a path separator is answered with 404 or 400.
C1_PathStaysUnderRoot ==
    /\ \A p \in touched : UnderRoot(p)
    /\ (Answered /\ LeadsOutside
          /\ \A i \in 1..Len(TheReq.path) : decode_utf8_ok(percent_decode(TheReq.path[i])))
        => TheResp.status \in {"NotFound", "BadRequest"}

-----------------------------------------------------------------------------
(* C2 *)

\* the cache block answers 304 whatever the range block built
NotModifiedDue ==
    /\ cfg.cache
    /\ IsSome(TheReq.if_modified_since)
    /\ FileSec <= Unwrap(TheReq.if_modified_since)

\* C2: a GET with range support on and an honored Range: bytes header whose
\* first spec fits the file is answered 206 with Content-Length = length,
\* Content-Range = bytes offset-(offset+length-1)/L and the file from offset,
\* length bytes long, as body; (offset, length) as the claim's table gives them.
\* (Read for the requests the cache block does not turn into 304.)
C2_RangeResolution ==
    (RangeHonored /\ ~IfMatchFails /\ ~Unsatisfiable /\ ~NotModifiedDue)
    => /\ TheResp.status = "PartialContent"
       /\ TheResp.content_length = Some(SpecLength)
       /\ TheResp.content_range =
             Some([first |-> SpecOffset, last |-> SpecOffset + SpecLength - 1,
                   total |-> FileLen])
       /\ TheResp.body.kind = "file"
       /\ TheResp.body.offset = SpecOffset
       /\ TheResp.body.bytes = SpecLength

-----------------------------------------------------------------------------
(* C3 *)

\* C3: a GET of an existing file with range support on is answered 416 exactly
\* when a Range header comes with an If-Match list that fails, or the Range
\* header is honored and its first spec cannot be satisfied; a suffix range
\* never gives 416, and neither does any request with range support off or a
\* method other than GET.
C3_RangeNotSatisfiable ==
    FileRequest
    => /\ (cfg.range /\ TheReq.method = "Get")
          => (TheResp.status = "RangeNotSatisfiable"
                <=> \/ (RangeRequest /\ IfMatchFails)
                    \/ (RangeHonored /\ Unsatisfiable))
       /\ (RangeHonored /\ ~IfMatchFails /\ HasFirstSpec /\ FirstSpec.t = "Last")
          => TheResp.status # "RangeNotSatisfiable"
       /\ (~cfg.range \/ TheReq.method # "Get")
          => TheResp.status # "RangeNotSatisfiable"

\* a range from a position at or past the end of the file was answered 416
C3_Witness ==
    /\ RangeHonored /\ ~IfMatchFails /\ HasFirstSpec
    /\ FirstSpec.t = "AllFrom" /\ FirstSpec.x = FileLen /\ FileLen > 0
    /\ TheResp.status = "RangeNotSatisfiable"

-----------------------------------------------------------------------------
(* C4 *)

\* the request C4 speaks of: a Range request with If-Range whose If-Match,
\* if any, holds
IfRangeRequest == RangeRequest /\ IsSome(TheReq.if_range) /\ ~IfMatchFails

\* the response was decided by the Range header: partial content, a range
\* error, or the abort while building the Content-Range
RangeUsed == TheResp.status \in {"PartialContent", "RangeNotSatisfiable", "panic"}

\* C4 as stated: with Range and If-Range, the range is used iff If-Range
\* passes; when it fails the response is 200 with the whole file; without
\* If-Range the range is always used.
C4_Original ==
    /\ IfRangeRequest => (RangeUsed <=> IfRangePasses)
    /\ (IfRangeRequest /\ ~IfRangePasses) => WholeFile
    /\ (RangeRequest /\ TheReq.if_range = None /\ ~IfMatchFails) => RangeUsed

\* C4 amended: as C4, except that a request with caching on and an
\* If-Modified-Since date not before the modification time is answered 304
\* in place of the 200 or the 206.
C4_IfRange ==
    /\ IfRangeRequest
       => /\ RangeUsed => IfRangePasses
          /\ (IfRangePasses /\ ~NotModifiedDue) => RangeUsed
          /\ (IfRangePasses /\ NotModifiedDue)
                => TheResp.status \in {"NotModified", "RangeNotSatisfiable", "panic"}
    /\ (IfRangeRequest /\ ~IfRangePasses)
       => IF NotModifiedDue THEN TheResp.status = "NotModified" ELSE WholeFile
    /\ (RangeRequest /\ TheReq.if_range = None /\ ~IfMatchFails)
       => (RangeUsed \/ (NotModifiedDue /\ TheResp.status = "NotModified"))

\* If-Range failed on a Range that could not have been satisfied, and the
\* whole file was sent
C4_Witness ==
    /\ IfRangeRequest /\ ~IfRangePasses /\ Unsatisfiable
    /\ Unwrap(TheReq.if_range).kind = "Date"
    /\ WholeFile

-----------------------------------------------------------------------------
(* C5 *)

\* C5: with caching on, a request for an existing file whose
\* If-Modified-Since date is not before the modification time is answered 304
\* with no body, Content-Type or Content-Encoding, whatever its other headers;
\* with caching off nothing is answered 304.
C5_NotModified ==
    FileRequest
    => /\ NotModifiedDue
          => /\ TheResp.status = "NotModified"
             /\ TheResp.body.kind = "none"
             /\ TheResp.content_type = None
             /\ TheResp.content_encoding = None
       /\ ~cfg.cache => TheResp.status # "NotModified"

-----------------------------------------------------------------------------
(* C6 *)

\* C6: no response is both 206 Partial Content and carries Content-Encoding.
C6_NoEncodedPartial ==
    Answered => ~(TheResp.status = "PartialContent" /\ IsSome(TheResp.content_encoding))

\* a compressible file, asked for with gzip accepted and a range, went out as
\* 206 without Content-Encoding
C6_Witness ==
    /\ RangeHonored
    /\ IsSome(cfg.compress) /\ ".js" \in Unwrap(cfg.compress)
    /\ Unwrap(Target) = <<"srv", "a.js">>
    /\ IsSome(TheReq.accept_encoding) /\ InSeq("gzip", Unwrap(TheReq.accept_encoding))
    /\ TheResp.status = "PartialContent"
    /\ TheResp.content_encoding = None

-----------------------------------------------------------------------------
(* Requests for the directory /srv/d, with every query string, over every   *)
(* content of the directory and every order read_dir may yield               *)

QueryPairs ==
    {<<"sort", v>> : v \in {"name", "modified", "size", "bogus"}}
    \cup {<<"order", v>> : v \in {"asc", "desc", "bogus"}}

\* no pair, one, or two (the later of two pairs with one key wins)
Queries ==
    {<<>>} \cup {<<p>> : p \in QueryPairs} \cup {<<p, q>> : p \in QueryPairs, q \in QueryPairs}

DirRequests ==
    {[Get(<<<<"d">>>>) EXCEPT !.query = q] : q \in Queries}
    \cup {[Get(<<<<"d">>>>) EXCEPT !.accept_encoding = Some(<<e>>)] :
            e \in {"gzip", "deflate", "identity"}}

InitDir ==
    /\ cfg \in {Config(ix, FALSE, TRUE, TRUE, so, co) :
                  ix \in BOOLEAN, so \in BOOLEAN, co \in Compressions}
    /\ fs \in {FsWith(E) : E \in {X \in SUBSET PoolNames : Cardinality(X) <= MaxEntries}}
    /\ req = None /\ resp = None /\ touched = {} /\ stream = Idle

ReceiveDir == Receive(DirRequests)

NextDir == ReceiveDir \/ Handle \/ Send

SpecDir == InitDir /\ [][NextDir]_vars

-----------------------------------------------------------------------------
(* What the claims about listings speak of *)

\* the request is a GET for an existing directory
DirRequest ==
    /\ Answered
    /\ TheReq.method = "Get"
    /\ \A i \in 1..Len(TheReq.path) : decode_utf8_ok(percent_decode(TheReq.path[i]))
    /\ IsSome(Target)
    /\ IsDir(fs, Unwrap(Target))

\* the names in the directory, and the entry read_dir gives for a name
DirNames == {q[Len(q)] : q \in Children(fs, Unwrap(Target))}
EntryOf(name) == [filename |-> name, metadata |-> fs[Append(Unwrap(Target), name)]]

SortParam == QueryGet(TheReq.query, "sort")
OrderParam == QueryGet(TheReq.query, "order")

ValidSort == IsSome(SortParam) /\ Unwrap(SortParam) \in {"name", "modified", "size"}
ValidOrder == OrderParam = None \/ Unwrap(OrderParam) \in {"asc", "desc"}

\* descending unless order=asc
Descending == OrderParam = None \/ Unwrap(OrderParam) = "desc"

\* an index page takes the place of the listing
IndexServed == cfg.index /\ DirNames \cap {"index.html", "index.htm"} # {}

\* the response is a listing; its entry rows, in order
IsListing == TheResp.status = "Ok" /\ TheResp.body.kind = "html"
Listed == Tail(TheResp.body.rows)

\* the listing shows every entry of the directory once
ListsAll ==
    /\ Len(Listed) = Cardinality(DirNames)
    /\ {Listed[i].name : i \in 1..Len(Listed)} = DirNames

\* no entry is listed before one that the field's comparison, in the
\* requested direction, puts in front of it
SortedBy(field, desc) ==
    \A i, j \in 1..Len(Listed) :
        i < j => Compare(field, desc, EntryOf(Listed[i].name), EntryOf(Listed[j].name))
                   # "Greater"

-----------------------------------------------------------------------------
(* C7 *)

\* C7: with sorting on, a directory request that gives sort is answered 400
\* when sort is not name, modified or size, or order is given and is not asc
\* or desc; with a valid sort and no order the listing is sorted descending;
\* with a valid sort and order asc or desc the response is a 200 listing
\* sorted accordingly.  (The listing is read for the directories that serve
\* no index page.)
C7_SortValidation ==
    (DirRequest /\ cfg.sort /\ IsSome(SortParam))
    => /\ (~ValidSort \/ ~ValidOrder) => TheResp.status = "BadRequest"
       /\ (ValidSort /\ ValidOrder /\ ~IndexServed)
          => /\ IsListing
             /\ ListsAll
             /\ SortedBy(Unwrap(SortParam), Descending)

-----------------------------------------------------------------------------
(* C8 *)

IsDirRow(i) == EntryOf(Listed[i].name).metadata.kind = "dir"
IsFileRow(i) == EntryOf(Listed[i].name).metadata.kind = "file"
RowLen(i) == EntryOf(Listed[i].name).metadata.len

\* C8: in a listing sorted by size ascending every directory comes before
\* every regular file and the files are in non-decreasing length; descending,
\* every file comes before every directory and the files are in
\* non-increasing length.
C8_SizeOrder ==
    (DirRequest /\ cfg.sort /\ SortParam = Some("size") /\ IsSome(OrderParam)
       /\ ValidOrder /\ IsListing)
    => \A i, j \in 1..Len(Listed) :
          /\ (IsDirRow(i) /\ IsFileRow(j)) => (IF Descending THEN j < i ELSE i < j)
          /\ (IsFileRow(i) /\ IsFileRow(j) /\ i < j)
             => (IF Descending THEN RowLen(i) >= RowLen(j) ELSE RowLen(i) <= RowLen(j))

-----------------------------------------------------------------------------
(* C9 *)

Leq(o) == o \in {"Less", "Equal"}

\* C9: for each sort field the comparison the sort has applied to the entries
\* of the directory is a total preorder on them (cmp(a,b) is the reverse of
\* cmp(b,a); cmp(a,b) <= and cmp(b,c) <= give cmp(a,c) <=), and by size two
\* directories compare equal whatever lengths they report.
C9_TotalOrder ==
    (DirRequest /\ cfg.sort /\ ValidSort /\ ValidOrder)
    => LET E == {EntryOf(n) : n \in DirNames}
           cmp(a, b) == FieldCmp(Unwrap(SortParam), a, b)
       IN /\ \A a, b \in E : cmp(a, b) = Reverse(cmp(b, a))
          /\ \A a, b, c \in E :
                (Leq(cmp(a, b)) /\ Leq(cmp(b, c))) => Leq(cmp(a, c))
          /\ Unwrap(SortParam) = "size"
             => \A a, b \in E : (is_dir(a) /\ is_dir(b)) => cmp(a, b) = "Equal"

-----------------------------------------------------------------------------
(* C10 *)

\* the response send_file gives for the entry of the listed directory
FileResponse(name) ==
    send_file(cfg, fs, TheReq, Append(PushAll(RootBuf, <<<<"d">>>>), <<name>>),
              "wrap").resp

\* C10: with automatic index on, a directory holding index.html is answered
\* with the file response for index.html, whatever else it holds, whatever
\* order it is read in and whatever the query; holding index.htm and no
\* index.html, with the file response for index.htm; with automatic index off
\* the listing is rendered.  (Read for the queries the sort validation lets
\* through.)
C10_IndexPage ==
    (DirRequest /\ Unwrap(Target) = <<"srv", "d">>
       /\ ~(cfg.sort /\ IsSome(SortParam) /\ (~ValidSort \/ ~ValidOrder)))
    => /\ (cfg.index /\ "index.html" \in DirNames)
          => TheResp = FileResponse("index.html")
       /\ (cfg.index /\ "index.htm" \in DirNames /\ "index.html" \notin DirNames)
          => TheResp = FileResponse("index.htm")
       /\ ~cfg.index => IsListing

-----------------------------------------------------------------------------
(* C11 *)

\* the path handle() hands to send_file for the request
FsPath ==
    PushAll(RootBuf,
            [i \in 1..Len(SelectSeq(TheReq.path, NonEmpty)) |->
                percent_decode(SelectSeq(TheReq.path, NonEmpty)[i])])

\* the responses the same request would get as a GET (one for each outcome of
\* the unchecked subtraction), the aborted ones left out
GetResponses ==
    {g \in {send_file(cfg, fs, [TheReq EXCEPT !.method = "Get"], FsPath, o).resp :
              o \in {"panic", "wrap"}} : g.status # "panic"}

\* C11: the response to a HEAD for an existing file has no body and carries
\* the Content-Type and the Content-Length the response to a GET with the same
\* headers would carry; the Content-Type is the one the file's path gives.
C11_HeadAsGet ==
    (FileRequest /\ TheReq.method = "Head")
    => /\ TheResp.body.kind = "none"
       /\ \A g \in GetResponses :
             /\ TheResp.content_type = g.content_type
             /\ TheResp.content_length = g.content_length
       /\ TheResp.status = "Ok"
             => TheResp.content_type = Some(mime_for_path(FsPath))

-----------------------------------------------------------------------------
(* C12 *)

\* a segment of the URL path does not decode to UTF-8
InvalidSegment ==
    \E i \in 1..Len(TheReq.path) : ~decode_utf8_ok(percent_decode(TheReq.path[i]))

\* C12: a request with a path segment whose percent-decoding is not valid
\* UTF-8 is answered 400 Bad Request (the worker does not abort), and no path
\* of the file system is accessed for it.
C12_InvalidUtf8 ==
    (Answered /\ InvalidSegment)
    => /\ TheResp.status = "BadRequest"
       /\ touched = {}

-----------------------------------------------------------------------------
(* C13 *)

\* a POST with upload enabled has been answered
UploadRequest == Answered /\ cfg.upload /\ TheReq.method = "Post"

\* the multipart body was decoded in full
Decoded == TheReq.body.form = "multipart" /\ TheReq.body.save = "Full"

\* the directory the URL path resolves to
TargetDir == Resolve(fs, FsPath)

\* the uploaded file now sits in the target directory
CopiedInto(file) ==
    /\ IsSome(TargetDir)
    /\ \E p \in DOMAIN fs :
          /\ p # <<>> /\ Parent(p) = Unwrap(TargetDir)
          /\ fs[p] = Node("file", file.len, file.time, 0, file.ver)

AllCopied ==
    \A i \in 1..Len(TheReq.body.files) : CopiedInto(TheReq.body.files[i])

\* C13: with upload enabled a POST is answered 302 Found, redirecting to the
\* request's own URL, exactly when the body was decoded and every file of it
\* was copied into the target directory; a multipart body that could not be
\* decoded or copied in full is answered 500 with a message (a body that is
\* not multipart at all is left to the 400 of the error table);
\* with upload disabled a POST is never answered as an upload and the file
\* system stays as it was when the server started.
C13_Upload ==
    /\ UploadRequest
       => /\ TheResp.status = "Found" <=> (Decoded /\ AllCopied)
          /\ TheResp.status = "Found"
                => TheResp.location = Some(<<TheReq.path, TheReq.query>>)
          /\ (TheReq.body.form = "multipart" /\ ~(Decoded /\ AllCopied))
                => (TheResp.status = "InternalServerError" /\ TheResp.body.kind = "text")
    /\ ~cfg.upload
       => /\ fs = FsWith({"one.txt"})
          /\ Answered => TheResp.status # "Found"

-----------------------------------------------------------------------------
(* C14 *)

\* C14: every 206 for a file of L bytes has Content-Range bytes first-last/L
\* with 0 <= first <= last <= L - 1 and Content-Length = last - first + 1 >= 1,
\* and no Range the handler accepts makes offset + length - 1 underflow (the
\* worker aborting there, or the wrapped value going out as `last`).
C14_PartialWellFormed ==
    /\ (FileRequest /\ TheResp.status = "PartialContent")
       => /\ IsSome(TheResp.content_range) /\ IsSome(TheResp.content_length)
          /\ Unwrap(TheResp.content_range).total = FileLen
          /\ 0 <= Unwrap(TheResp.content_range).first
          /\ Unwrap(TheResp.content_range).first <= Unwrap(TheResp.content_range).last
          /\ Unwrap(TheResp.content_range).last <= FileLen - 1
          /\ Unwrap(TheResp.content_length) =
                Unwrap(TheResp.content_range).last - Unwrap(TheResp.content_range).first + 1
          /\ Unwrap(TheResp.content_length) >= 1
    /\ (RangeHonored /\ ~IfMatchFails /\ ~Unsatisfiable) => TheResp.status # "panic"

-----------------------------------------------------------------------------
(* C15 *)

IsCoding(e) == e \in {"gzip", "deflate"}

\* C15: a response with Content-Encoding names one encoding, gzip or deflate,
\* which the request listed in Accept-Encoding, and compression is configured;
\* on a response that is not a listing it is the first gzip or deflate item of
\* Accept-Encoding.
C15_ContentEncoding ==
    (Answered /\ IsSome(TheResp.content_encoding))
    => /\ IsCoding(Unwrap(TheResp.content_encoding))
       /\ IsSome(cfg.compress)
       /\ IsSome(TheReq.accept_encoding)
       /\ InSeq(Unwrap(TheResp.content_encoding), Unwrap(TheReq.accept_encoding))
       /\ TheResp.body.kind # "html"
             => Unwrap(TheResp.content_encoding) =
                   Head(SelectSeq(Unwrap(TheReq.accept_encoding), IsCoding))

-----------------------------------------------------------------------------
(* send_file for a GET, one file-system call at a time, while another       *)
(* worker handles uploads into the same directory                           *)

RacePath == <<<<"a.js">>>>

\* GET /a.js: no range, the whole file as a range, a suffix, a prefix
RaceRequests ==
    {[Get(RacePath) EXCEPT !.range = rg] :
        rg \in {None, Bytes(<<AllFrom(0)>>), Bytes(<<Last(1)>>),
                Bytes(<<FromTo(0, MaxPos)>>)}}

\* POST / with a file named a.js, of every length, in two versions
RaceUploads ==
    {[Get(<<>>) EXCEPT
        !.method = "Post",
        !.body = [form |-> "multipart", save |-> "Full",
                  files |-> <<UploadFile(Some(<<"a.js">>), n, v)>>]] :
        n \in 0..MaxPos, v \in {2, 3}}

InitRace ==
    /\ cfg \in {Config(FALSE, TRUE, ca, ra, TRUE, None) :
                  ca \in BOOLEAN, ra \in BOOLEAN}
    /\ fs = FsWith({"one.txt"})
    /\ req = None /\ resp = None /\ touched = {} /\ stream = Idle

ReceiveRace == Receive(RaceRequests)

\* fs::metadata(path) at the head of send_file
Metadata ==
    /\ IsSome(req) /\ resp = None /\ stream.pc = "idle"
    /\ IsSome(Target) /\ ~IsDir(fs, Unwrap(Target))
    /\ stream' = [Idle EXCEPT !.pc = "metadata", !.metadata = Some(fs[Unwrap(Target)])]
    /\ UNCHANGED <<cfg, fs, req, resp, touched>>

\* the rest of send_file: the headers from the metadata read before, and
\* fs::File::open for the body
Open ==
    /\ stream.pc = "metadata"
    /\ \E overflow \in {"panic", "wrap"} :
          LET seen == [fs EXCEPT ![Unwrap(Target)] = Unwrap(stream.metadata)]
              sent == send_file(cfg, seen, TheReq, FsPath, overflow)
          IN /\ resp' = Some(sent.resp)
             /\ touched' = sent.touched
    /\ stream' = [stream EXCEPT !.pc = "open"]
    /\ UNCHANGED <<cfg, fs, req>>

\* iron writes the response: the body is read from the open file as it is
\* now, from the offset sought, and at most Content-Length bytes go out
Stream ==
    /\ stream.pc = "open"
    /\ stream' =
         [stream EXCEPT
            !.pc = "sent",
            !.sent = IF TheResp.body.kind = "file"
                     THEN FileBody(TheResp.body.path, fs[TheResp.body.path],
                                   TheResp.body.offset, TheResp.content_length)
                     ELSE NoBody]
    /\ UNCHANGED <<cfg, fs, req, resp, touched>>

\* the worker is free again
Done ==
    /\ stream.pc = "sent"
    /\ req' = None /\ resp' = None /\ touched' = {} /\ stream' = Idle
    /\ UNCHANGED <<cfg, fs>>

\* another worker handles an upload from start to finish
Upload ==
    /\ \E r \in RaceUploads : fs' = handle(cfg, fs, r, <<>>, "wrap").fs
    /\ UNCHANGED <<cfg, req, resp, touched, stream>>

NextRace == ReceiveRace \/ Metadata \/ Open \/ Stream \/ Done \/ Upload

SpecRace == InitRace /\ [][NextRace]_vars

-----------------------------------------------------------------------------
(* C16 *)

\* C16: whatever an uploading worker does meanwhile, a GET response with a
\* file as body delivers as many bytes as Content-Length says, and the body is
\* of the version of the file whose metadata gave Content-Length,
\* Content-Range, ETag and Last-Modified.
C16_SingleVersion ==
    (stream.pc = "sent" /\ TheResp.body.kind = "file")
    => /\ Some(stream.sent.bytes) = TheResp.content_length
       /\ stream.sent.ver = Unwrap(stream.metadata).ver

====
